---- MODULE Spec2Model ----
(***************************************************************************)
(* Model of database.py, the SQLite persistence layer of the OSINT bot.    *)
(*                                                                         *)
(* The committed database is the five tables users, admins, banned,        *)
(* lookups and daily_stats.  Every handler opens its own connection with   *)
(* aiosqlite.connect, runs its statements and commits.  Python's sqlite3   *)
(* opens a transaction implicitly before the first INSERT/UPDATE/DELETE of *)
(* a connection, and closing a connection without commit rolls back.       *)
(*                                                                         *)
(* Spec     : one caller, every handler runs to completion (one action).   *)
(* SpecConc : save_lookup invocations on separate connections, one         *)
(*            statement per step, under SQLite's single-writer locking.    *)
(***************************************************************************)
EXTENDS Integers, Sequences, FiniteSets, TLC

\* ------------------------------------------------------------------ bounds
MaxTime == 1
MaxCalls == 3

\* the clock counts ticks; a calendar day ('%Y-%m-%d') is TicksPerDay of them
TicksPerDay == 2
UserIds == {1, 2}
Commands == {"num", "tg"}
Queries == {"9876543210"}
Results == {[a |-> 1]}
\* (reason, banned_by) arguments of ban_user
BanArgs == {<<"spam", 1>>, <<"abuse", 2>>}
\* days arguments of get_daily_stats
DaysArgs == {1, 7}
NULL == "NULL"
\* (username, first_name, last_name) arguments of update_user; None is NULL
NameArgs == {<<NULL, NULL, NULL>>, <<"al", "Al", NULL>>, <<"bob", "Bob", "Ray">>}
\* offset of the process's local time zone from UTC, in ticks
TzOffsets == {0, 1}
Conns == {"A", "B"}

VARIABLES
    users,        \* user_id -> row of table users
    admins,       \* user_id -> row of table admins
    banned,       \* user_id -> row of table banned
    lookups,      \* rows of table lookups in id order
    daily_stats,  \* <<date, command>> -> count
    now,          \* the UTC clock, in ticks
    tz,           \* the local time zone's offset from UTC, in ticks
    last,         \* the latest completed call: op, args, raised, value
    ncalls,       \* number of handler calls made so far
    pc,           \* SpecConc: position of each save_lookup invocation
    call,         \* SpecConc: arguments of each invocation
    tx,           \* SpecConc: each connection's uncommitted view of the tables
    writer        \* SpecConc: the connection holding the write lock, or NULL

db == <<users, admins, banned, lookups, daily_stats>>
conc == <<pc, call, tx, writer>>
vars == <<users, admins, banned, lookups, daily_stats, now, tz, last, ncalls, pc, call, tx, writer>>

\* ------------------------------------------------------------- the clocks
\* CURRENT_TIMESTAMP: SQLite's clock is UTC
CurrentTimestamp(t) == t
\* datetime.now(): naive local time
DatetimeNow(t, off) == t + off
\* the calendar date of a timestamp (strftime('%Y-%m-%d') / date(ts))
DateOf(ts) == ts \div TicksPerDay

\* json.dumps of a lookup result
JsonDumps(r) == "{\"a\": " \o ToString(r.a) \o "}"

\* ------------------------------------------------------------- statements
EmptyTable == [k \in {} |-> NULL]

\* variant: INSERT OR REPLACE INTO users, which rewrites the whole row
UpsertUserReplace(us, u, ts, names) ==
    [k \in DOMAIN us \cup {u} |->
        IF k = u
        THEN [first_seen |-> ts, last_seen |-> ts, total_lookups |-> 0,
              username |-> names[1], first_name |-> names[2],
              last_name |-> names[3]]
        ELSE us[k]]

\* INSERT INTO users ... ON CONFLICT(user_id) DO UPDATE SET last_seen, names
UpsertUser(us, u, ts, names) ==
    IF u \in DOMAIN us
    THEN [us EXCEPT ![u] = [@ EXCEPT !.last_seen = ts,
                                     !.username = names[1],
                                     !.first_name = names[2],
                                     !.last_name = names[3]]]
    ELSE [k \in DOMAIN us \cup {u} |->
            IF k = u
            THEN [first_seen |-> ts, last_seen |-> ts, total_lookups |-> 0,
                  username |-> names[1], first_name |-> names[2],
                  last_name |-> names[3]]
            ELSE us[k]]

\* variant: INSERT OR REPLACE INTO admins
InsertOrReplaceAdmin(ad, u, by, ts) ==
    [k \in DOMAIN ad \cup {u} |->
        IF k = u THEN [added_by |-> by, added_on |-> ts] ELSE ad[k]]

\* INSERT OR IGNORE INTO admins (user_id, added_by)
InsertOrIgnoreAdmin(ad, u, by, ts) ==
    IF u \in DOMAIN ad
    THEN ad
    ELSE [k \in DOMAIN ad \cup {u} |->
            IF k = u THEN [added_by |-> by, added_on |-> ts] ELSE ad[k]]

\* DELETE FROM admins / banned WHERE user_id = ?
DeleteRow(tbl, u) == [k \in DOMAIN tbl \ {u} |-> tbl[k]]

\* variant: INSERT OR IGNORE INTO banned, which never raises
InsertBannedNeverRaises(bn, u) == "None"

\* INSERT INTO banned (user_id, reason, banned_by): the primary key decides
InsertBannedRaises(bn, u) == IF u \in DOMAIN bn THEN "IntegrityError" ELSE "None"

InsertBanned(bn, u, reason, by, ts) ==
    IF InsertBannedRaises(bn, u) # "None"
    THEN bn
    ELSE [k \in DOMAIN bn \cup {u} |->
            IF k = u THEN [reason |-> reason, banned_by |-> by, banned_on |-> ts]
            ELSE bn[k]]

\* INSERT INTO lookups (user_id, command, query, result)
InsertLookup(lk, u, c, q, r, ts) ==
    Append(lk, [id |-> Len(lk) + 1, user_id |-> u, command |-> c, query |-> q,
                result |-> JsonDumps(r), timestamp |-> ts])

\* UPDATE users SET total_lookups = total_lookups + 1 WHERE user_id = ?
IncrementTotalLookups(us, u) ==
    [k \in DOMAIN us |->
        IF k = u THEN [us[k] EXCEPT !.total_lookups = @ + 1] ELSE us[k]]

\* variant: INSERT OR REPLACE INTO daily_stats (date, command, count) VALUES (?, ?, 1)
ReplaceDailyStats(ds, d, c) ==
    [k \in DOMAIN ds \cup {<<d, c>>} |-> IF k = <<d, c>> THEN 1 ELSE ds[k]]

\* INSERT INTO daily_stats ... ON CONFLICT(date, command) DO UPDATE count + 1
UpsertDailyStats(ds, d, c) ==
    IF <<d, c>> \in DOMAIN ds
    THEN [ds EXCEPT ![<<d, c>>] = @ + 1]
    ELSE [k \in DOMAIN ds \cup {<<d, c>>} |-> IF k = <<d, c>> THEN 1 ELSE ds[k]]

\* ------------------------------------------------- connections and locking
\* variant: a connection in autocommit mode, whose statements are already
\* in the database file when it is closed
CloseKeepsWrites(committed, uncommitted) == uncommitted

\* async with aiosqlite.connect(...) left by an exception: the connection is
\* closed without commit, and SQLite rolls its open transaction back
CloseWithoutCommit(committed, uncommitted) == committed

\* a write statement needs SQLite's RESERVED lock, which one connection holds
\* from its first write statement to its commit or rollback
CanWrite(w, c) == w = NULL \/ w = c

\* ---------------------------------------------------------------- queries
is_admin(u) == u \in DOMAIN admins
is_banned(u) == u \in DOMAIN banned

RECURSIVE SumTotalLookups(_, _)
SumTotalLookups(us, S) ==
    IF S = {} THEN 0
    ELSE LET k == CHOOSE x \in S : TRUE
         IN us[k].total_lookups + SumTotalLookups(us, S \ {k})

\* variant: SELECT COUNT(total_lookups) FROM users
SelectCount(us) == <<Cardinality(DOMAIN us)>>

\* SELECT SUM(total_lookups) FROM users: the column of the one row fetched,
\* <<>> standing for SQL NULL (the sum over no rows)
SelectSum(us) == IF DOMAIN us = {} THEN <<>> ELSE <<SumTotalLookups(us, DOMAIN us)>>
\* (await cursor.fetchone())[0] or 0
OrZero(v) == IF v = <<>> \/ v[1] = 0 THEN 0 ELSE v[1]

StatsRecord(us, ad, bn) ==
    [total_users |-> Cardinality(DOMAIN us),
     total_lookups |-> OrZero(SelectSum(us)),
     total_admins |-> Cardinality(DOMAIN ad),
     total_banned |-> Cardinality(DOMAIN bn)]

\* number of ? placeholders SQLite finds in the statement of get_daily_stats:
\* its only ? is inside the string literal "-? days"
DailyStatsSqlParams == 0

\* sqlite3's execute(sql, parameters): the bindings supplied must be as many
\* as the statement's placeholders
BindParameters(nparams, parameters) ==
    IF Len(parameters) # nparams THEN "ProgrammingError" ELSE "None"

\* date("now", "-? days"): "-? days" is no modifier, the result is NULL
DateNowModifier == NULL

RECURSIVE OrderByDateDesc(_, _)
OrderByDateDesc(ds, K) ==
    IF K = {} THEN <<>>
    ELSE LET k == CHOOSE x \in K : \A y \in K : y[1] <= x[1]
         IN <<[date |-> k[1], command |-> k[2], count |-> ds[k]]>>
            \o OrderByDateDesc(ds, K \ {k})

\* SELECT date, command, count FROM daily_stats WHERE date >= cutoff
\* ORDER BY date DESC; a comparison with NULL selects no row
SelectDailyStats(ds, cutoff) ==
    IF cutoff = NULL THEN <<>>
    ELSE OrderByDateDesc(ds, {k \in DOMAIN ds : k[1] >= cutoff})

\* ------------------------------------------------------------------- Init
NoCall == [op |-> "none", args |-> <<>>, raised |-> "None", value |-> NULL]

\* a connection that runs no save_lookup yet, and one with no open transaction
NoInvocation == [user_id |-> 0, command |-> NULL, query |-> NULL, result |-> [a |-> 0],
                 existed |-> FALSE, overlapped |-> FALSE, date |-> 0,
                 raised |-> "None", at |-> "idle"]
NoTransaction == [lookups |-> <<>>, users |-> EmptyTable, daily_stats |-> EmptyTable]

Init ==
    /\ users = EmptyTable
    /\ admins = EmptyTable
    /\ banned = EmptyTable
    /\ lookups = <<>>
    /\ daily_stats = EmptyTable
    /\ now = 0
    /\ tz \in TzOffsets
    /\ last = NoCall
    /\ ncalls = 0
    /\ pc = [c \in Conns |-> "idle"]
    /\ call = [c \in Conns |-> NoInvocation]
    /\ tx = [c \in Conns |-> NoTransaction]
    /\ writer = NULL

Returned(op, args, raised, value) ==
    /\ ncalls < MaxCalls
    /\ ncalls' = ncalls + 1
    /\ last' = [op |-> op, args |-> args, raised |-> raised, value |-> value]

\* ------------------------------------------------- handlers (sequential)
Tick ==
    /\ now < MaxTime
    /\ now' = now + 1
    /\ UNCHANGED <<db, tz, last, ncalls, conc>>

update_user(u, names) ==
    /\ users' = UpsertUser(users, u, DatetimeNow(now, tz), names)
    /\ Returned("update_user", <<u, names>>, "None", NULL)
    /\ UNCHANGED <<admins, banned, lookups, daily_stats, now, tz, conc>>

add_admin(u, by) ==
    /\ admins' = InsertOrIgnoreAdmin(admins, u, by, CurrentTimestamp(now))
    /\ Returned("add_admin", <<u, by>>, "None", NULL)
    /\ UNCHANGED <<users, banned, lookups, daily_stats, now, tz, conc>>

remove_admin(u) ==
    /\ admins' = DeleteRow(admins, u)
    /\ Returned("remove_admin", <<u>>, "None", NULL)
    /\ UNCHANGED <<users, banned, lookups, daily_stats, now, tz, conc>>

ban_user(u, reason, by) ==
    /\ banned' = InsertBanned(banned, u, reason, by, CurrentTimestamp(now))
    /\ Returned("ban_user", <<u, reason, by>>, InsertBannedRaises(banned, u), NULL)
    /\ UNCHANGED <<users, admins, lookups, daily_stats, now, tz, conc>>

unban_user(u) ==
    /\ banned' = DeleteRow(banned, u)
    /\ Returned("unban_user", <<u>>, "None", NULL)
    /\ UNCHANGED <<users, admins, lookups, daily_stats, now, tz, conc>>

save_lookup(u, c, q, r) ==
    /\ lookups' = InsertLookup(lookups, u, c, q, r, CurrentTimestamp(now))
    /\ users' = IncrementTotalLookups(users, u)
    /\ daily_stats' = UpsertDailyStats(daily_stats, DateOf(DatetimeNow(now, tz)), c)
    /\ Returned("save_lookup", <<u, c>>, "None", NULL)
    /\ UNCHANGED <<admins, banned, now, tz, conc>>

get_stats ==
    /\ Returned("get_stats", <<>>, "None", StatsRecord(users, admins, banned))
    /\ UNCHANGED <<db, now, tz, conc>>

get_daily_stats(days) ==
    LET raised == BindParameters(DailyStatsSqlParams, <<days>>)
    IN /\ Returned("get_daily_stats", <<days>>, raised,
                   IF raised = "None"
                   THEN SelectDailyStats(daily_stats, DateNowModifier)
                   ELSE NULL)
       /\ UNCHANGED <<db, now, tz, conc>>

\* ------------------------------------- save_lookup, statement by statement
Committed == [lookups |-> lookups, users |-> users, daily_stats |-> daily_stats]

Publish(t) ==
    /\ lookups' = t.lookups
    /\ users' = t.users
    /\ daily_stats' = t.daily_stats

\* save_lookup(u, cmd, q, r) is called and opens its connection
BeginSaveLookup(c, u, cmd, q, r) ==
    /\ pc[c] = "idle"
    /\ pc' = [pc EXCEPT ![c] = "insert"]
    /\ call' = [call EXCEPT ![c] = [user_id |-> u, command |-> cmd, query |-> q,
                                    result |-> r, existed |-> u \in DOMAIN users,
                                    overlapped |-> \E e \in Conns \ {c} :
                                                      pc[e] \notin {"idle", "done"},
                                    date |-> 0, raised |-> "None", at |-> "insert"]]
    /\ UNCHANGED <<db, now, tz, last, ncalls, tx, writer>>

\* INSERT INTO lookups: sqlite3 begins a transaction, the statement takes the
\* write lock and works on the committed tables
ExecInsertLookup(c) ==
    /\ pc[c] = "insert"
    /\ CanWrite(writer, c)
    /\ writer' = c
    /\ tx' = [tx EXCEPT ![c] =
                [Committed EXCEPT !.lookups =
                    InsertLookup(lookups, call[c].user_id, call[c].command,
                                 call[c].query, call[c].result, CurrentTimestamp(now))]]
    /\ pc' = [pc EXCEPT ![c] = "update"]
    /\ call' = [call EXCEPT ![c].at = "update"]
    /\ UNCHANGED <<db, now, tz, last, ncalls>>

\* INSERT INTO lookups while another connection holds the write lock, past the
\* busy timeout: OperationalError (database is locked) leaves the handler
ExecInsertLookupBusy(c) ==
    /\ pc[c] = "insert"
    /\ ~CanWrite(writer, c)
    /\ pc' = [pc EXCEPT ![c] = "done"]
    /\ call' = [call EXCEPT ![c].raised = "OperationalError"]
    /\ UNCHANGED <<db, now, tz, last, ncalls, tx, writer>>

\* UPDATE users SET total_lookups = total_lookups + 1
ExecUpdateUsers(c) ==
    /\ pc[c] = "update"
    /\ tx' = [tx EXCEPT ![c].users = IncrementTotalLookups(@, call[c].user_id)]
    /\ pc' = [pc EXCEPT ![c] = "daily"]
    /\ call' = [call EXCEPT ![c].at = "daily"]
    /\ UNCHANGED <<db, now, tz, last, ncalls, writer>>

\* date = datetime.now().strftime('%Y-%m-%d'); INSERT INTO daily_stats ...
ExecUpsertDailyStats(c) ==
    LET date == DateOf(DatetimeNow(now, tz))
    IN /\ pc[c] = "daily"
       /\ tx' = [tx EXCEPT ![c].daily_stats = UpsertDailyStats(@, date, call[c].command)]
       /\ pc' = [pc EXCEPT ![c] = "commit"]
       /\ call' = [call EXCEPT ![c].at = "commit", ![c].date = date]
       /\ UNCHANGED <<db, now, tz, last, ncalls, writer>>

\* await db.commit(), then the connection is closed and save_lookup returns
CommitSaveLookup(c) ==
    /\ pc[c] = "commit"
    /\ Publish(tx[c])
    /\ writer' = NULL
    /\ tx' = [tx EXCEPT ![c] = NoTransaction]
    /\ pc' = [pc EXCEPT ![c] = "done"]
    /\ call' = [call EXCEPT ![c].at = "done"]
    /\ UNCHANGED <<admins, banned, now, tz, last, ncalls>>

\* an exception (an engine error, a cancelled task) leaves save_lookup after
\* its first, second or third statement: the connection is closed uncommitted
AbortSaveLookup(c) ==
    /\ pc[c] \in {"update", "daily", "commit"}
    /\ Publish(CloseWithoutCommit(Committed, tx[c]))
    /\ writer' = NULL
    /\ tx' = [tx EXCEPT ![c] = NoTransaction]
    /\ pc' = [pc EXCEPT ![c] = "done"]
    /\ call' = [call EXCEPT ![c].raised = "Error"]
    /\ UNCHANGED <<admins, banned, now, tz, last, ncalls>>

\* update_user(u) from another caller: its INSERT needs the write lock too
ConcUpdateUser(u) ==
    /\ writer = NULL
    /\ users' = UpsertUser(users, u, DatetimeNow(now, tz), <<NULL, NULL, NULL>>)
    /\ UNCHANGED <<admins, banned, lookups, daily_stats, now, tz, last, ncalls, conc>>

NextConc ==
    \/ Tick
    \/ \E u \in UserIds : ConcUpdateUser(u)
    \/ \E c \in Conns, u \in UserIds, cmd \in Commands, q \in Queries, r \in Results :
            BeginSaveLookup(c, u, cmd, q, r)
    \/ \E c \in Conns : ExecInsertLookup(c)
    \/ \E c \in Conns : ExecInsertLookupBusy(c)
    \/ \E c \in Conns : ExecUpdateUsers(c)
    \/ \E c \in Conns : ExecUpsertDailyStats(c)
    \/ \E c \in Conns : CommitSaveLookup(c)
    \/ \E c \in Conns : AbortSaveLookup(c)

SpecConc == Init /\ [][NextConc]_vars

Next ==
    \/ Tick
    \/ \E u \in UserIds, names \in NameArgs : update_user(u, names)
    \/ \E u \in UserIds, by \in UserIds : add_admin(u, by)
    \/ \E u \in UserIds : remove_admin(u)
    \/ \E u \in UserIds, b \in BanArgs : ban_user(u, b[1], b[2])
    \/ \E u \in UserIds : unban_user(u)
    \/ \E u \in UserIds, c \in Commands, q \in Queries, r \in Results : save_lookup(u, c, q, r)
    \/ get_stats
    \/ \E days \in DaysArgs : get_daily_stats(days)

Spec == Init /\ [][Next]_vars
\* ------------------------------------------------------------ properties
\* a step that is a completed call of handler op
Called(op) == ncalls' = ncalls + 1 /\ last'.op = op

LookupIdsOf(u) == {i \in 1..Len(lookups) : lookups[i].user_id = u}

\* the dates that daily_stats or the lookups timestamps name
Dates == {k[1] : k \in DOMAIN daily_stats}
         \cup {DateOf(lookups[i].timestamp) : i \in 1..Len(lookups)}
DailyCountIn(ds, d, c) == IF <<d, c>> \in DOMAIN ds THEN ds[<<d, c>>] ELSE 0
DailyCount(d, c) == DailyCountIn(daily_stats, d, c)
LookupIdsOn(d, c) ==
    {i \in 1..Len(lookups) :
        lookups[i].command = c /\ DateOf(lookups[i].timestamp) = d}

\* C1: for every user_id with a users row, that row's total_lookups equals
\* the number of lookups rows with that user_id
C1_TotalLookupsIsRowCount ==
    \A u \in DOMAIN users : users[u].total_lookups = Cardinality(LookupIdsOf(u))

\* C3: for every (date, command), daily_stats.count (0 without a row) equals
\* the number of lookups rows with that command whose timestamp is on that date
C3_DailyCountIsRowCount ==
    \A d \in Dates, c \in Commands : DailyCount(d, c) = Cardinality(LookupIdsOn(d, c))

\* C4: every user_id in admins, in banned or in lookups has a users row
C4_UserRowExists ==
    /\ DOMAIN admins \subseteq DOMAIN users
    /\ DOMAIN banned \subseteq DOMAIN users
    /\ \A i \in 1..Len(lookups) : lookups[i].user_id \in DOMAIN users

\* the step of C5: update_user on a user_id that has a row keeps first_seen and
\* total_lookups, sets last_seen to the time of the call, stores exactly the
\* three name arguments, does not raise, and changes no other users row and
\* no other table
C5_UpdateUserStep ==
    \A u \in DOMAIN users :
        (Called("update_user") /\ last'.args[1] = u) =>
            /\ last'.raised = "None"
            /\ DOMAIN users' = DOMAIN users
            /\ users'[u].first_seen = users[u].first_seen
            /\ users'[u].total_lookups = users[u].total_lookups
            /\ users'[u].last_seen = DatetimeNow(now, tz)
            /\ users'[u].username = last'.args[2][1]
            /\ users'[u].first_name = last'.args[2][2]
            /\ users'[u].last_name = last'.args[2][3]
            /\ \A v \in DOMAIN users \ {u} : users'[v] = users[v]
            /\ UNCHANGED <<admins, banned, lookups, daily_stats>>
\* C5: every update_user of a user_id that has a row keeps first_seen and
\* total_lookups, sets last_seen and the three names from the call, does not
\* raise and changes nothing else
C5_UpdateUserExisting == [][C5_UpdateUserStep]_vars

\* a second update_user of a user, later than the first and after a lookup,
\* storing NULL names
C5_Witness ==
    /\ last.op = "update_user"
    /\ last.args[2] = <<NULL, NULL, NULL>>
    /\ last.args[1] \in DOMAIN users
    /\ users[last.args[1]].first_seen < users[last.args[1]].last_seen
    /\ users[last.args[1]].total_lookups = 1
    /\ users[last.args[1]].username = NULL

\* the step of C6: ban_user of a user_id already in banned raises the uniqueness error
\* and changes nothing: the row keeps the reason and banned_by of the first
\* call, and is_banned stays true
C6_BanUserStep ==
    \A u \in DOMAIN banned :
        (Called("ban_user") /\ last'.args[1] = u) =>
            /\ last'.raised = "IntegrityError"
            /\ u \in DOMAIN banned'
            /\ banned'[u] = banned[u]
            /\ UNCHANGED db
\* C6: every ban_user of a user_id already in banned raises the uniqueness
\* error and leaves every table, so the first ban's row, unchanged
C6_BanUserTwice == [][C6_BanUserStep]_vars

\* a failed second ban whose reason and banned_by differ from the stored ones
C6_Witness ==
    /\ last.op = "ban_user"
    /\ last.raised = "IntegrityError"
    /\ is_banned(last.args[1])
    /\ banned[last.args[1]].reason # last.args[2]
    /\ banned[last.args[1]].banned_by # last.args[3]

\* the step of C7: add_admin never raises and leaves the user_id in admins; for a
\* user_id already in admins it is a no-op, so the row keeps its added_by
C7_AddAdminStep ==
    \A u \in UserIds :
        (Called("add_admin") /\ last'.args[1] = u) =>
            /\ last'.raised = "None"
            /\ u \in DOMAIN admins'
            /\ u \in DOMAIN admins => UNCHANGED db
            /\ UNCHANGED <<users, banned, lookups, daily_stats>>
\* C7: every add_admin returns without raising with the user_id in admins,
\* and is a no-op when the user_id was already there
C7_AddAdminIdempotent == [][C7_AddAdminStep]_vars

\* a second add_admin that names another grantor than the stored one
C7_Witness ==
    /\ last.op = "add_admin"
    /\ is_admin(last.args[1])
    /\ admins[last.args[1]].added_by # last.args[2]

\* C8: get_daily_stats returns without error the daily_stats rows of the
\* trailing window of `days` days, newest date first
C8_Window(days) ==
    {k \in DOMAIN daily_stats : k[1] >= DateOf(CurrentTimestamp(now)) - days}
C8_DailyStatsReturned ==
    last.op = "get_daily_stats" =>
        /\ last.raised = "None"
        /\ {<<last.value[i].date, last.value[i].command>> :
                i \in 1..Len(last.value)} = C8_Window(last.args[1])
        /\ Len(last.value) = Cardinality(C8_Window(last.args[1]))
        /\ \A i \in 1..Len(last.value) :
                /\ last.value[i].count = daily_stats[<<last.value[i].date, last.value[i].command>>]
                /\ \A j \in i..Len(last.value) : last.value[j].date <= last.value[i].date

\* the step of C2: every step changes the committed tables either by none of the three
\* effects of save_lookup or by all three of one invocation: one lookups row
\* appended, the total_lookups of the rows of its user_id incremented, and
\* the daily_stats counter of (a date, its command) incremented or created at 1
C2_NoEffect ==
    /\ lookups' = lookups
    /\ daily_stats' = daily_stats
    /\ \A u \in DOMAIN users :
           u \in DOMAIN users' /\ users'[u].total_lookups = users[u].total_lookups
C2_AllEffects(c) ==
    /\ Len(lookups') = Len(lookups) + 1
    /\ SubSeq(lookups', 1, Len(lookups)) = lookups
    /\ lookups'[Len(lookups')].user_id = call[c].user_id
    /\ lookups'[Len(lookups')].command = call[c].command
    /\ DOMAIN users' = DOMAIN users
    /\ \A u \in DOMAIN users :
           users'[u].total_lookups =
               users[u].total_lookups + (IF u = call[c].user_id THEN 1 ELSE 0)
    /\ \E d \in {k[1] : k \in DOMAIN daily_stats'} :
           \A k \in DOMAIN daily_stats \cup DOMAIN daily_stats' :
               DailyCountIn(daily_stats', k[1], k[2]) =
                   DailyCountIn(daily_stats, k[1], k[2])
                   + (IF k = <<d, call[c].command>> THEN 1 ELSE 0)
\* C2: save_lookup is all-or-nothing in the committed tables, also when it
\* is left between two of its statements
C2_SaveLookupAtomic ==
    [][C2_NoEffect \/ \E c \in Conns : C2_AllEffects(c)]_vars

\* one invocation left after its second statement and nothing of it is
\* committed, the other committed all three effects, both for an existing user
C2_Witness ==
    \E c \in Conns, e \in Conns :
        /\ pc[c] = "done" /\ call[c].raised = "Error" /\ call[c].at = "daily"
        /\ pc[e] = "done" /\ call[e].raised = "None"
        /\ call[c].existed /\ call[e].existed
        /\ call[c].user_id = call[e].user_id
        /\ Len(lookups) = 1
        /\ users[call[e].user_id].total_lookups = 1

\* two invocations returned successfully, for the same user, who had a row
\* when each was called, and the same command, and counted on the same day
C10_BothReturned(c, e) ==
    /\ c # e
    /\ pc[c] = "done" /\ call[c].raised = "None"
    /\ pc[e] = "done" /\ call[e].raised = "None"
    /\ call[c].user_id = call[e].user_id
    /\ call[c].command = call[e].command
    /\ call[c].date = call[e].date
    /\ call[c].existed /\ call[e].existed

\* C10: when two save_lookup invocations on separate connections for the
\* same existing user, command and day both return successfully, starting
\* from a database without lookups, then lookups holds exactly their two
\* rows, and the user's total_lookups and the day's counter are exactly 2
C10_NoLostIncrement ==
    \A c \in Conns, e \in Conns :
        C10_BothReturned(c, e) =>
            /\ Len(lookups) = 2
            /\ Cardinality(LookupIdsOf(call[c].user_id)) = 2
            /\ users[call[c].user_id].total_lookups = 2
            /\ DailyCount(call[c].date, call[c].command) = 2

\* both returned, and at least one was called while the other was running
C10_Witness ==
    \E c \in Conns, e \in Conns :
        C10_BothReturned(c, e) /\ (call[c].overlapped \/ call[e].overlapped)

\* the number of pairs (user, k) with k in 1..total_lookups: the sum of
\* total_lookups over the users rows
LookupUnits == {<<u, k>> \in UserIds \X (1..MaxCalls) :
                    u \in DOMAIN users /\ k <= users[u].total_lookups}

\* the step of C9: get_stats returns the number of users rows, the sum of their
\* total_lookups (0 without users), the number of admins rows and the number
\* of banned rows, and changes no table
C9_GetStatsStep ==
    Called("get_stats") =>
        /\ last'.raised = "None"
        /\ last'.value.total_users = Cardinality(DOMAIN users)
        /\ last'.value.total_lookups = Cardinality(LookupUnits)
        /\ last'.value.total_admins = Cardinality(DOMAIN admins)
        /\ last'.value.total_banned = Cardinality(DOMAIN banned)
        /\ UNCHANGED db
\* C9: every get_stats returns the four aggregates of the tables as they are
\* at the call, the sum being 0 without users, and changes no table
C9_GetStats == [][C9_GetStatsStep]_vars

\* get_stats of a database with a user who has a lookup
C9_Witness ==
    /\ last.op = "get_stats"
    /\ last.value.total_users = 1
    /\ last.value.total_lookups = 1

====
